---- MODULE Spec2Model ----
(***************************************************************************)
(* A model of the refresh / cache / menu pipeline of the ccusage menu bar  *)
(* application (src-tauri/src/lib.rs): the startup task, the periodic      *)
(* refresh task and the tasks spawned by the "refresh" menu item, all      *)
(* running refresh_session_data over the shared SESSION_CACHE mutex and    *)
(* the IS_REFRESHING flag.                                                 *)
(*                                                                         *)
(* The tasks run on a multi-threaded runtime: every access to the flag,    *)
(* every acquisition of the mutex and every external command is a step of  *)
(* its own, and the steps of different tasks interleave freely.  The       *)
(* Relaxed loads and stores of the one flag are taken in a single total    *)
(* order.  The "quit", "debug" and link items of the menu touch none of    *)
(* the state below and are left out.                                       *)
(*                                                                         *)
(* Spec is the running program and FairSpec adds its scheduling.  PureSpec *)
(* calls find(), format_model_name and build_menu each on its own, on      *)
(* every argument within the bounds.                                       *)
(***************************************************************************)
EXTENDS Integers, Sequences, FiniteSets, TLC

\* ------------------------------------------------------------------ bounds
\* Refresh cycles that may be started in one run (the startup cycle included).
MaxCycles == 3
\* Tasks spawned by the "refresh" menu item that may be alive at the same time.
MaxManual == 1
\* Distinct block ids the external tool may report.
MaxBlockId == 2
\* Longest "blocks" array of a response.
MaxBlocks == 2
\* Most pieces of a model identifier handed to format_model_name on its own.
MaxIdLen == 3

\* ------------------------------------------------------------------- tasks
\* The task spawned at lib.rs:409 (initial refresh, then the tray).
Startup == 0
\* The task spawned at lib.rs:392 (the 120 s interval loop).
Periodic == 1
\* The tasks spawned by the "refresh" arm of on_menu_event (lib.rs:452).
ManualTasks == 2..(MaxManual + 1)
Tasks == {Startup, Periodic} \cup ManualTasks
\* The value of the lock variable when nobody holds the mutex.
NoTask == -1

\* ------------------------------------------------------------ Option<T>
None == <<>>
Some(x) == <<x>>
IsSome(o) == o # None
Unwrap(o) == o[1]

\* ------------------------------------------------------------- BlockData
\* cost_usd is kept in thousandths of a dollar, so that "{:.2}" has digits
\* to round away.
CostOf(id) == CASE id = 1 -> 12340
                [] id = 2 -> 5678
                [] OTHER  -> 1111 * id

\* A model identifier is the sequence of the pieces it is the concatenation
\* of: <<"claude-", "opus", "-4-20250514">> is "claude-opus-4-20250514". The
\* family keywords "opus", "sonnet" and "haiku" are pieces of their own and
\* occur in no other piece nor across two pieces, so that a string contains
\* a keyword exactly if the keyword is one of its pieces; no piece is the
\* beginning of another, so that different sequences are different strings.
ModelsOf(id) == CASE id = 1 -> << <<"claude-", "sonnet", "-4-20250514">> >>
                  [] id = 2 -> << <<"my-custom-", "opus", "-model">>,
                                  <<"claude-3-", "haiku", "-20240307">> >>
                  [] OTHER  -> << >>

BlockData(id, active) ==
    [id          |-> id,
     is_active   |-> active,
     cost_usd    |-> CostOf(id),
     input_tokens  |-> 1500 * id,
     output_tokens |-> 250 * id,
     start_time  |-> IF id % 2 = 1 THEN <<"rfc3339", id>> ELSE <<"garbage">>,
     end_time    |-> <<"rfc3339", id + 5>>,
     models      |-> ModelsOf(id)]

BlockIds == 1..MaxBlockId
Blocks == {BlockData(i, a) : i \in BlockIds, a \in BOOLEAN}

\* BlocksResponse.blocks: every array of at most MaxBlocks records.
RECURSIVE SeqsUpTo(_, _)
SeqsUpTo(S, n) ==
    IF n = 0 THEN {<<>>}
    ELSE LET shorter == SeqsUpTo(S, n - 1)
         IN  shorter \cup {Append(s, x) : s \in {q \in shorter : Len(q) = n - 1}, x \in S}

Responses == SeqsUpTo(Blocks, MaxBlocks)

\* What one Command::output().await plus the parse can come to (lib.rs:107-134).
SpawnFailure == [kind |-> "spawn_failure"]
ExitFailure  == [kind |-> "exit_failure"]
ParseFailure == [kind |-> "parse_failure"]
Parsed(resp) == [kind |-> "parsed", blocks |-> resp]
Outcomes == {SpawnFailure, ExitFailure, ParseFailure} \cup {Parsed(r) : r \in Responses}

\* shell_commands (lib.rs:86-99) has six entries.
NumStrategies == 6

\* ------------------------------------------------------- pure functions
\* Faulty variant: the last active record is taken (rfind / rev().find()).
FindLast(blocks) ==
    LET act == {i \in 1..Len(blocks) : blocks[i].is_active}
    IN  IF act = {} THEN None
        ELSE Some(blocks[CHOOSE i \in act : \A j \in act : j <= i])

\* response.blocks.into_iter().find(|block| block.is_active)
RECURSIVE Find(_)
Find(blocks) ==
    IF blocks = <<>> THEN None
    ELSE IF Head(blocks).is_active THEN Some(Head(blocks))
    ELSE Find(Tail(blocks))

\* format!("${:.2}", cost): the dollars and the cents, rounded to the nearest cent.
FormatCost(cost) ==
    LET cents == (cost + 5) \div 10
    IN  <<"$", cents \div 100, cents % 100>>

\* format!("{:.1}K", tokens as f64 / 1000.0): thousands and tenths of a thousand.
FormatK(tokens) ==
    LET tenths == (tokens + 50) \div 100
    IN  <<tenths \div 10, tenths % 10, "K">>

\* parse_from_rfc3339(..).ok().map(local "%I:%M %p").unwrap_or("Unknown")
FormatTime(t) == IF t[1] = "rfc3339" THEN <<"local", t[2]>> ELSE <<"Unknown">>

\* model_name.contains(keyword), for a family keyword.
Contains(name, keyword) == \E i \in 1..Len(name) : name[i] = keyword

\* Faulty variant: the fallback looks for "sonnet" before "opus".
format_model_name_sonnet_first(name) ==
    CASE name = <<"claude-", "opus", "-4-20250514">> -> <<"Opus 4">>
      [] name = <<"claude-", "sonnet", "-4-20250514">> -> <<"Sonnet 4">>
      [] name = <<"claude-3-5-", "sonnet", "-20241022">> -> <<"Sonnet 3.5">>
      [] name = <<"claude-3-", "haiku", "-20240307">> -> <<"Haiku">>
      [] OTHER -> IF Contains(name, "sonnet") THEN <<"Sonnet">>
                  ELSE IF Contains(name, "opus") THEN <<"Opus">>
                  ELSE IF Contains(name, "haiku") THEN <<"Haiku">>
                  ELSE name

format_model_name(name) ==
    CASE name = <<"claude-", "opus", "-4-20250514">> -> <<"Opus 4">>
      [] name = <<"claude-", "sonnet", "-4-20250514">> -> <<"Sonnet 4">>
      [] name = <<"claude-3-5-", "sonnet", "-20241022">> -> <<"Sonnet 3.5">>
      [] name = <<"claude-3-", "haiku", "-20240307">> -> <<"Haiku">>
      [] OTHER -> IF Contains(name, "opus") THEN <<"Opus">>
                  ELSE IF Contains(name, "sonnet") THEN <<"Sonnet">>
                  ELSE IF Contains(name, "haiku") THEN <<"Haiku">>
                  ELSE name

\* ----------------------------------------------------------- build_menu
\* An item id is the tuple of its parts: <<"refresh">>, <<"model_", name>>.
Item(id, text, enabled) == [id |-> <<id>>, text |-> text, enabled |-> enabled]
ModelItem(model) == [id |-> <<"model_", model>>, text |-> format_model_name(model), enabled |-> TRUE]
Separator == Item("separator", <<>>, FALSE)

ActiveItems(block) ==
    << Item("session_cost", <<"Cost: ">> \o FormatCost(block.cost_usd), TRUE),
       Item("session_tokens",
            <<"Tokens: In ">> \o FormatK(block.input_tokens)
                \o <<" / Out ">> \o FormatK(block.output_tokens), TRUE),
       Item("session_start", <<"Started: ">> \o FormatTime(block.start_time), TRUE),
       Item("session_end", <<"Expires: ">> \o FormatTime(block.end_time), TRUE) >>
    \o (IF block.models # <<>>
        THEN <<Separator, Item("models_header", <<"Models used">>, FALSE)>>
             \o [i \in 1..Len(block.models) |->
                    ModelItem(block.models[i])]
        ELSE <<>>)
    \o <<Separator>>

\* Faulty variant: the install hint is shown whenever there is no session.
NoSessionItemsAlwaysHint(ccusage_available) ==
    << Item("no_session", <<"No active session">>, TRUE),
       Item("error_msg", <<"ccusage may not be installed">>, FALSE),
       Item("install_msg", <<"Install: npm install -g ccusage">>, TRUE),
       Separator >>

NoSessionItems(ccusage_available) ==
    << Item("no_session", <<"No active session">>, TRUE) >>
    \o (IF ~ccusage_available
        THEN << Item("error_msg", <<"ccusage may not be installed">>, FALSE),
                Item("install_msg", <<"Install: npm install -g ccusage">>, TRUE) >>
        ELSE <<>>)
    \o <<Separator>>

\* Faulty variant: the "Loading..." line is left enabled.
LoadingItemsEnabled == << Item("loading", <<"Loading...">>, TRUE), Separator >>

LoadingItems == << Item("loading", <<"Loading...">>, FALSE), Separator >>

\* The menu build_menu assembles from the snapshot it took of the cache.
MenuOf(snap) ==
    << Item("ccusage_header", <<"CCUsage">>, TRUE), Separator,
       Item("session_title", <<"Current session">>, FALSE) >>
    \o (IF IsSome(snap.active_block) THEN ActiveItems(Unwrap(snap.active_block))
        ELSE IF snap.has_attempted_fetch THEN NoSessionItems(snap.ccusage_available)
        ELSE LoadingItems)
    \o << Item("refresh", <<"Refresh">>, TRUE),
          Item("debug", <<"Debug Info">>, TRUE), Separator,
          Item("quit", <<"Quit">>, TRUE) >>

HasItem(menu, id) == \E i \in 1..Len(menu) : menu[i].id = <<id>>

\* ------------------------------------------------------------------ state
VARIABLES
    pc,             \* where each task stands
    idx,            \* fetch_session_data: the strategy the loop is at (1-based)
    fetched,        \* refresh_session_data: (active_block, ccusage_available), title
    IS_REFRESHING,  \* the AtomicBool of lib.rs:60
    SESSION_CACHE,  \* the SessionData behind the mutex of lib.rs:52
    lock,           \* the task holding the SESSION_CACHE mutex, or NoTask
    tray,           \* the tray icon: built, managed, its title and its menu
    initial,        \* the startup task's locals: menu and initial_title
    started,        \* history: refresh cycles started so far
    cyc,            \* history: the number of the cycle each task is in (0: none)
    returned,       \* history: whether some refresh_session_data has returned
    invoked,        \* history: per task, the strategies its current probe has run
                    \* (kept until the task goes on to store the result)
    written,        \* history: the cycle that last wrote each field of the cache
    snapshot,       \* history: for the last copy a reader took, the cycles whose
                    \* writes it saw in each field
    output,         \* history: per task, which arm of `match output` the strategy
                    \* it ran last took (kept until the task stores the result)
    last_probe,     \* history: whether the fetch_session_data that returned last
                    \* had a strategy exit with success and a well-formed response
    call            \* the function under test, its argument and its result, in
                    \* the specification of the pure functions (NoCall elsewhere)

vars == <<pc, idx, fetched, IS_REFRESHING, SESSION_CACHE, lock, tray, initial,
          started, cyc, returned, invoked, written, snapshot, output, last_probe,
          call>>

\* The positions inside refresh_session_data, from IS_REFRESHING.store(true)
\* to IS_REFRESHING.store(false).
InFlightPcs == {"fetch", "lock", "write_block", "write_updated", "write_available",
                "set_title", "rebuild_menu", "clear_flag"}
CyclePcs == {"set_flag"} \cup InFlightPcs

InCycle(t) == pc[t] \in CyclePcs
InFlight(t) == pc[t] \in InFlightPcs

\* Where refresh_session_data returns to.
ReturnPc(t) == IF t = Startup THEN "build_menu"
               ELSE IF t = Periodic THEN "tick"
               ELSE "manual_menu"

NoResult == [active_block |-> None, ccusage_available |-> FALSE, title |-> <<>>]

\* No pure function is under test.
NoCall == [fn |-> "none"]

\* The cache as the static initialiser leaves it (lib.rs:52-56).
EmptyCache == [active_block |-> None, last_updated |-> None,
               ccusage_available |-> FALSE]

Init ==
    /\ pc = [t \in Tasks |-> IF t = Startup THEN "set_flag"
                             ELSE IF t = Periodic THEN "tick" ELSE "idle"]
    /\ idx = [t \in Tasks |-> 0]
    /\ fetched = [t \in Tasks |-> NoResult]
    /\ IS_REFRESHING = FALSE
    /\ SESSION_CACHE = EmptyCache
    /\ lock = NoTask
    /\ tray = [exists |-> FALSE, managed |-> FALSE, title |-> <<>>, menu |-> <<>>]
    /\ initial = [menu |-> <<>>, title |-> <<>>]
    /\ started = 1
    /\ cyc = [t \in Tasks |-> IF t = Startup THEN 1 ELSE 0]
    /\ returned = FALSE
    /\ invoked = [t \in Tasks |-> <<>>]
    /\ written = [active_block |-> 0, last_updated |-> 0, ccusage_available |-> 0]
    /\ snapshot = written
    /\ output = [t \in Tasks |-> "none"]
    /\ last_probe = None
    /\ call = NoCall

\* Faulty variant: the title is requested before the cache is replaced.
StepAfterTitleFirst(p) ==
    CASE p = "set_flag"        -> "fetch"
      [] p = "fetch"           -> "set_title"
      [] p = "set_title"       -> "lock"
      [] p = "lock"            -> "write_block"
      [] p = "write_block"     -> "write_updated"
      [] p = "write_updated"   -> "write_available"
      [] p = "write_available" -> "rebuild_menu"

\* The statements of refresh_session_data in the order the function has them
\* (lib.rs:224-250): where a task stands after the statement at p.
StepAfter(p) ==
    CASE p = "set_flag"        -> "fetch"
      [] p = "fetch"           -> "lock"
      [] p = "lock"            -> "write_block"
      [] p = "write_block"     -> "write_updated"
      [] p = "write_updated"   -> "write_available"
      [] p = "write_available" -> "set_title"
      [] p = "set_title"       -> "rebuild_menu"

\* ------------------------------------------------- the SESSION_CACHE mutex
\* Faulty variant: the cache is a plain static, accessed without the mutex.
CanLockUnguarded == TRUE

\* SESSION_CACHE.lock() returns only when no other task holds the mutex.
CanLock == lock = NoTask

\* Faulty variant: the guard is bound outside the block and lives on, as in
\* `let cache = SESSION_CACHE.lock().unwrap(); if cache.last_updated.is_some() {..}`.
GuardKeptAfterBlock(t) == t

\* The holder of the mutex after a reader's block: `cache` is a local of the
\* block and is dropped at its closing brace.
GuardAfterBlock(t) == NoTask

\* A reader's block { let cache = SESSION_CACHE.lock().unwrap(); (copy) }:
\* lock, copy, unlock. The history variable keeps what the copy saw.
ReadCache(t) ==
    /\ CanLock
    /\ snapshot' = written
    /\ lock' = GuardAfterBlock(t)

\* Faulty variant: build_menu also looks at the guard and shows "Loading..."
\* for as long as a refresh is running.
MenuSnapshotWhileRefreshing ==
    [active_block        |-> SESSION_CACHE.active_block,
     has_attempted_fetch |-> IsSome(SESSION_CACHE.last_updated) /\ ~IS_REFRESHING,
     ccusage_available   |-> SESSION_CACHE.ccusage_available]

\* The triple build_menu copies out of the cache (lib.rs:269-272).
MenuSnapshot ==
    [active_block        |-> SESSION_CACHE.active_block,
     has_attempted_fetch |-> IsSome(SESSION_CACHE.last_updated),
     ccusage_available   |-> SESSION_CACHE.ccusage_available]

\* build_menu returns Ok(menu), or Err when an item fails to build: before
\* the cache is read (lib.rs:265) or after it (lib.rs:277-375).
BuildOutcomes == {"built", "failed_early", "failed_late"}

\* build_menu(app) followed by `if let Some(tray) = try_state() { set_menu }`.
BuildAndSetMenu(t, outcome) ==
    /\ IF outcome = "failed_early" THEN UNCHANGED <<snapshot, lock>> ELSE ReadCache(t)
    /\ tray' = IF outcome = "built" /\ tray.managed
               THEN [tray EXCEPT !.menu = MenuOf(MenuSnapshot)]
               ELSE tray

\* ------------------------------------------------- fetch_session_data
\* Ok(output) if output.status.success(), then Ok(response) of the parse.
Succeeded(outcome) == outcome.kind = "parsed"

\* return (active_block, true)
FetchReturn(outcome) ==
    [active_block |-> Find(outcome.blocks), ccusage_available |-> TRUE]

\* (None, false), after the loop
AllFailed == [active_block |-> None, ccusage_available |-> FALSE]

\* `continue`: the for loop takes the next entry of shell_commands.
NextStrategy(i) == i + 1

\* Faulty variant: a command that cannot be spawned ends the probe at once
\* (Command::output().await? in place of the match arm).
ContinuesUnlessSpawnFails(outcome) == outcome.kind # "spawn_failure"

\* Each of the three failing arms of `match output` ends in `continue`.
Continues(outcome) == TRUE

\* Faulty variant: the title is taken from the interval the cache holds when
\* the fetch returns, not from the interval just fetched.
TitleOfCached(active_block) ==
    IF IsSome(SESSION_CACHE.active_block)
    THEN FormatCost(Unwrap(SESSION_CACHE.active_block).cost_usd) ELSE <<>>

\* The title local of refresh_session_data (lib.rs:230-234); String::new() is <<>>.
TitleOf(active_block) ==
    IF IsSome(active_block) THEN FormatCost(Unwrap(active_block).cost_usd) ELSE <<>>

WithTitle(r) == [active_block |-> r.active_block,
                 ccusage_available |-> r.ccusage_available,
                 title |-> TitleOf(r.active_block)]

\* One turn of the loop of fetch_session_data; when the function returns,
\* refresh_session_data computes its title (lib.rs:230-234).
ExecuteStrategy(t) ==
    /\ pc[t] = "fetch"
    /\ \E outcome \in Outcomes :
          /\ invoked' = [invoked EXCEPT ![t] =
                            Append(@, [strategy |-> idx[t],
                                       ok       |-> outcome.kind = "parsed",
                                       found    |-> IF outcome.kind = "parsed"
                                                    THEN Find(outcome.blocks)
                                                    ELSE None])]
          /\ output' = [output EXCEPT ![t] = outcome.kind]
          /\ IF Succeeded(outcome)
             THEN /\ fetched' = [fetched EXCEPT ![t] = WithTitle(FetchReturn(outcome))]
                  /\ last_probe' = Some(outcome.kind = "parsed")
                  /\ pc' = [pc EXCEPT ![t] = StepAfter("fetch")]
                  /\ idx' = [idx EXCEPT ![t] = 0]
             ELSE IF Continues(outcome) /\ NextStrategy(idx[t]) <= NumStrategies
             THEN /\ idx' = [idx EXCEPT ![t] = NextStrategy(idx[t])]
                  /\ UNCHANGED <<fetched, pc, last_probe>>
             ELSE /\ fetched' = [fetched EXCEPT ![t] = WithTitle(AllFailed)]
                  /\ last_probe' = Some(outcome.kind = "parsed")
                  /\ pc' = [pc EXCEPT ![t] = StepAfter("fetch")]
                  /\ idx' = [idx EXCEPT ![t] = 0]
    /\ UNCHANGED <<IS_REFRESHING, SESSION_CACHE, lock, tray, initial, started, cyc,
                   returned, written, snapshot, call>>

\* ------------------------------------------------ refresh_session_data
\* IS_REFRESHING.store(true, Relaxed), and the call of fetch_session_data.
SetRefreshing(t) ==
    /\ pc[t] = "set_flag"
    /\ IS_REFRESHING' = TRUE
    /\ pc' = [pc EXCEPT ![t] = StepAfter("set_flag")]
    /\ idx' = [idx EXCEPT ![t] = 1]
    /\ invoked' = [invoked EXCEPT ![t] = <<>>]
    /\ UNCHANGED <<fetched, SESSION_CACHE, lock, tray, initial, started, cyc,
                   returned, written, snapshot,
                   output, last_probe, call>>

\* let mut cache = SESSION_CACHE.lock().unwrap();
LockCache(t) ==
    /\ pc[t] = "lock"
    /\ CanLock
    /\ lock' = t
    /\ pc' = [pc EXCEPT ![t] = StepAfter("lock")]
    /\ invoked' = [invoked EXCEPT ![t] = <<>>]
    /\ output' = [output EXCEPT ![t] = "none"]
    /\ UNCHANGED <<idx, fetched, IS_REFRESHING, SESSION_CACHE, tray, initial, started,
                   cyc, returned, written, snapshot, last_probe, call>>

\* Faulty variant: a failed fetch keeps the interval the cache holds.
NewActiveBlockKeptOnFailure(t) ==
    IF fetched[t].ccusage_available THEN fetched[t].active_block
    ELSE SESSION_CACHE.active_block

\* The value assigned to cache.active_block.
NewActiveBlock(t) == fetched[t].active_block

\* cache.active_block = active_block;
WriteActiveBlock(t) ==
    /\ pc[t] = "write_block"
    /\ SESSION_CACHE' = [SESSION_CACHE EXCEPT !.active_block = NewActiveBlock(t)]
    /\ written' = [written EXCEPT !.active_block = cyc[t]]
    /\ pc' = [pc EXCEPT ![t] = StepAfter("write_block")]
    /\ UNCHANGED <<idx, fetched, IS_REFRESHING, lock, tray, initial, started, cyc,
                   returned, invoked, snapshot,
                   output, last_probe, call>>

\* Some(Instant::now()): the instant is never read back, only is_some().
Now == Some("instant")

\* Faulty variant: the timestamp is set only when the tool answered.
NewLastUpdatedOnSuccess(t) ==
    IF fetched[t].ccusage_available THEN Some("instant") ELSE SESSION_CACHE.last_updated

\* The value assigned to cache.last_updated.
NewLastUpdated(t) == Now

\* cache.last_updated = Some(Instant::now());
WriteLastUpdated(t) ==
    /\ pc[t] = "write_updated"
    /\ SESSION_CACHE' = [SESSION_CACHE EXCEPT !.last_updated = NewLastUpdated(t)]
    /\ written' = [written EXCEPT !.last_updated = cyc[t]]
    /\ pc' = [pc EXCEPT ![t] = StepAfter("write_updated")]
    /\ UNCHANGED <<idx, fetched, IS_REFRESHING, lock, tray, initial, started, cyc,
                   returned, invoked, snapshot,
                   output, last_probe, call>>

\* cache.ccusage_available = ccusage_available; and the end of the block
\* drops the MutexGuard.
WriteAvailable(t) ==
    /\ pc[t] = "write_available"
    /\ SESSION_CACHE' = [SESSION_CACHE EXCEPT
                            !.ccusage_available = fetched[t].ccusage_available]
    /\ written' = [written EXCEPT !.ccusage_available = cyc[t]]
    /\ lock' = IF lock = t THEN NoTask ELSE lock
    /\ pc' = [pc EXCEPT ![t] = StepAfter("write_available")]
    /\ UNCHANGED <<idx, fetched, IS_REFRESHING, tray, initial, started, cyc,
                   returned, invoked, snapshot,
                   output, last_probe, call>>

\* if let Some(tray) = app_handle.tray_by_id("main") { tray.set_title(Some(title)) }
SetTrayTitle(t) ==
    /\ pc[t] = "set_title"
    /\ tray' = IF tray.exists THEN [tray EXCEPT !.title = fetched[t].title] ELSE tray
    /\ pc' = [pc EXCEPT ![t] = StepAfter("set_title")]
    /\ UNCHANGED <<idx, fetched, IS_REFRESHING, SESSION_CACHE, lock, initial, started,
                   cyc, returned, invoked, written, snapshot,
                   output, last_probe, call>>

\* Faulty variant: a failed build_menu makes refresh_session_data return at once
\* (build_menu(app_handle).await? in place of the if let).
AfterRebuildReturnsOnErr(t, outcome) ==
    IF outcome = "built" THEN "clear_flag" ELSE ReturnPc(t)

\* Whatever build_menu returns, refresh_session_data goes on to line 257.
AfterRebuild(t, outcome) == "clear_flag"

\* if let Ok(new_menu) = build_menu(app_handle).await { ... set_menu ... }
RebuildMenu(t) ==
    /\ pc[t] = "rebuild_menu"
    /\ \E outcome \in BuildOutcomes :
          /\ BuildAndSetMenu(t, outcome)
          /\ pc' = [pc EXCEPT ![t] = AfterRebuild(t, outcome)]
    /\ UNCHANGED <<idx, fetched, IS_REFRESHING, SESSION_CACHE, initial, started,
                   cyc, returned, invoked, written,
                   output, last_probe, call>>

\* IS_REFRESHING.store(false, Relaxed), and the return to the caller.
ClearRefreshing(t) ==
    /\ pc[t] = "clear_flag"
    /\ IS_REFRESHING' = FALSE
    /\ pc' = [pc EXCEPT ![t] = ReturnPc(t)]
    /\ fetched' = [fetched EXCEPT ![t] = NoResult]
    /\ returned' = TRUE
    /\ cyc' = [cyc EXCEPT ![t] = 0]
    /\ UNCHANGED <<idx, invoked, SESSION_CACHE, lock, tray, initial, started, written,
                   snapshot,
                   output, last_probe, call>>

\* A task calls refresh_session_data: one more cycle starts.
CallRefresh(t) ==
    /\ started < MaxCycles
    /\ started' = started + 1
    /\ cyc' = [cyc EXCEPT ![t] = started + 1]
    /\ pc' = [pc EXCEPT ![t] = "set_flag"]

\* ---------------------------------------------- the periodic task (392-407)
\* interval.tick().await returns.
PeriodicTick ==
    /\ pc[Periodic] = "tick"
    /\ pc' = [pc EXCEPT ![Periodic] = "check_flag"]
    /\ UNCHANGED <<idx, fetched, IS_REFRESHING, SESSION_CACHE, lock, tray, initial,
                   started, cyc, returned, invoked, written, snapshot,
                   output, last_probe, call>>

\* if !IS_REFRESHING.load(Relaxed)
FlagClear == ~IS_REFRESHING

PeriodicCheckFlag ==
    /\ pc[Periodic] = "check_flag"
    /\ pc' = [pc EXCEPT ![Periodic] = IF FlagClear THEN "check_cache" ELSE "tick"]
    /\ UNCHANGED <<idx, fetched, IS_REFRESHING, SESSION_CACHE, lock, tray, initial,
                   started, cyc, returned, invoked, written, snapshot,
                   output, last_probe, call>>

\* Faulty variant: the periodic task refreshes without waiting for a first refresh.
ShouldRefreshAlways == TRUE

\* cache.last_updated.is_some()
ShouldRefresh == IsSome(SESSION_CACHE.last_updated)

\* let should_refresh = { lock; is_some() }; if should_refresh { refresh(..) }
PeriodicCheckCache ==
    /\ pc[Periodic] = "check_cache"
    /\ ReadCache(Periodic)
    /\ IF ShouldRefresh
       THEN CallRefresh(Periodic)
       ELSE /\ pc' = [pc EXCEPT ![Periodic] = "tick"]
            /\ UNCHANGED <<started, cyc>>
    /\ UNCHANGED <<idx, fetched, IS_REFRESHING, SESSION_CACHE, tray, initial,
                   returned, invoked, written,
                   output, last_probe, call>>

\* ------------------------------------ the "refresh" menu item (450-463)
\* Faulty variant: the tray icon and its menu are built before the initial refresh.
CanActivateMenuAtOnce == TRUE

\* The host delivers menu events once the tray icon is built with its menu.
CanActivateMenu == tray.exists

\* on_menu_event "refresh": spawn a task that calls refresh_session_data.
MenuRefresh(m) ==
    /\ pc[m] = "idle"
    /\ CanActivateMenu
    /\ CallRefresh(m)
    /\ UNCHANGED <<idx, fetched, IS_REFRESHING, SESSION_CACHE, lock, tray, initial,
                   returned, invoked, written, snapshot,
                   output, last_probe, call>>

\* The spawned task's second build_menu and set_menu (457-461); the task ends.
ManualMenu(m) ==
    /\ pc[m] = "manual_menu"
    /\ \E outcome \in BuildOutcomes : BuildAndSetMenu(m, outcome)
    /\ pc' = [pc EXCEPT ![m] = "idle"]
    /\ UNCHANGED <<idx, fetched, IS_REFRESHING, SESSION_CACHE, initial, started,
                   cyc, returned, invoked, written,
                   output, last_probe, call>>

\* ------------------------------------------- the startup task (409-498)
\* match build_menu(&app_handle).await: Ok(menu) goes on, Err ends the task.
StartupBuildMenu ==
    /\ pc[Startup] = "build_menu"
    /\ \E outcome \in BuildOutcomes :
          /\ IF outcome = "failed_early" THEN UNCHANGED <<snapshot, lock>>
             ELSE ReadCache(Startup)
          /\ IF outcome = "built"
             THEN /\ initial' = [initial EXCEPT !.menu = MenuOf(MenuSnapshot)]
                  /\ pc' = [pc EXCEPT ![Startup] = "initial_title"]
             ELSE /\ pc' = [pc EXCEPT ![Startup] = "done"]
                  /\ UNCHANGED initial
    /\ UNCHANGED <<idx, fetched, IS_REFRESHING, SESSION_CACHE, tray, started,
                   cyc, returned, invoked, written,
                   output, last_probe, call>>

\* let initial_title = { lock; active_block.map(format) }; unwrap_or_default()
StartupInitialTitle ==
    /\ pc[Startup] = "initial_title"
    /\ ReadCache(Startup)
    /\ initial' = [initial EXCEPT !.title = TitleOf(SESSION_CACHE.active_block)]
    /\ pc' = [pc EXCEPT ![Startup] = "build_tray"]
    /\ UNCHANGED <<idx, fetched, IS_REFRESHING, SESSION_CACHE, tray, started,
                   cyc, returned, invoked, written,
                   output, last_probe, call>>

\* TrayIconBuilder::with_id("main").title(..).menu(&menu)...build(); the
\* title is moved into the builder and the menu is not used again.
StartupBuildTray ==
    /\ pc[Startup] = "build_tray"
    /\ tray' = [exists |-> TRUE, managed |-> FALSE,
                title |-> initial.title, menu |-> initial.menu]
    /\ initial' = [menu |-> <<>>, title |-> <<>>]
    /\ pc' = [pc EXCEPT ![Startup] = "manage"]
    /\ UNCHANGED <<idx, fetched, IS_REFRESHING, SESSION_CACHE, lock, started,
                   cyc, returned, invoked, written, snapshot,
                   output, last_probe, call>>

\* app_handle.manage(Arc::new(tray))
StartupManage ==
    /\ pc[Startup] = "manage"
    /\ tray' = [tray EXCEPT !.managed = TRUE]
    /\ pc' = [pc EXCEPT ![Startup] = "done"]
    /\ UNCHANGED <<idx, fetched, IS_REFRESHING, SESSION_CACHE, lock, initial, started,
                   cyc, returned, invoked, written, snapshot,
                   output, last_probe, call>>

\* ------------------------------------------------------- specification
\* A step of refresh_session_data by task t.
CycleStep(t) ==
    \/ SetRefreshing(t)
    \/ ExecuteStrategy(t)
    \/ LockCache(t)
    \/ WriteActiveBlock(t)
    \/ WriteLastUpdated(t)
    \/ WriteAvailable(t)
    \/ SetTrayTitle(t)
    \/ RebuildMenu(t)
    \/ ClearRefreshing(t)

Next ==
    \/ \E t \in Tasks : CycleStep(t)
    \/ PeriodicTick
    \/ PeriodicCheckFlag
    \/ PeriodicCheckCache
    \/ \E m \in ManualTasks : MenuRefresh(m)
    \/ \E m \in ManualTasks : ManualMenu(m)
    \/ StartupBuildMenu
    \/ StartupInitialTitle
    \/ StartupBuildTray
    \/ StartupManage

Spec == Init /\ [][Next]_vars

TypeOK ==
    /\ pc \in [Tasks -> CyclePcs \cup {"tick", "check_flag", "check_cache", "idle",
                  "manual_menu", "build_menu", "initial_title", "build_tray",
                  "manage", "done"}]
    /\ idx \in [Tasks -> 0..NumStrategies]
    /\ IS_REFRESHING \in BOOLEAN
    /\ lock \in Tasks \cup {NoTask}
    /\ started \in 1..MaxCycles
    /\ returned \in BOOLEAN

\* The runtime polls every spawned task, every external command is assumed to
\* terminate, and a held mutex is released by its holder: each task's steps
\* inside refresh_session_data are taken if they stay possible.
FairSpec == Spec /\ \A t \in Tasks : WF_vars(CycleStep(t))

\* --------------------------------- the pure functions, each on its own
\* The pieces the identifiers handed to format_model_name are made of: the
\* three family keywords and pieces that hold none of them.
IdPieces == {"opus", "sonnet", "haiku", "claude-", "-4-20250514", "x"}

\* The identifiers of the fixed table (lib.rs:66-69).
TableIds == { <<"claude-", "opus", "-4-20250514">>,
              <<"claude-", "sonnet", "-4-20250514">>,
              <<"claude-3-5-", "sonnet", "-20241022">>,
              <<"claude-3-", "haiku", "-20240307">> }

Identifiers == SeqsUpTo(IdPieces, MaxIdLen) \cup TableIds

\* The arrays response.blocks handed to find(): one record longer than the
\* prober's, for an active record between inactive ones.
FindArgs == SeqsUpTo(Blocks, MaxBlocks + 1)

\* Every value of the type SessionData (lib.rs:46-50): build_menu takes
\* whatever the cache holds.
SessionDatas ==
    [active_block      : {None} \cup {Some(b) : b \in Blocks},
     last_updated      : {None, Now},
     ccusage_available : BOOLEAN]

PureCalls ==
    {[fn |-> "build_menu", arg |-> << >>, done |-> FALSE, result |-> << >>]}
    \cup {[fn |-> "find", arg |-> r, done |-> FALSE, result |-> << >>] : r \in FindArgs}
    \cup {[fn |-> "format_model_name", arg |-> n, done |-> FALSE, result |-> << >>] :
             n \in Identifiers}

\* One call is about to be made; for build_menu the cache holds any SessionData.
PureInit ==
    /\ call \in PureCalls
    /\ SESSION_CACHE \in (IF call.fn = "build_menu" THEN SessionDatas ELSE {EmptyCache})
    /\ pc = [t \in Tasks |-> "done"]
    /\ idx = [t \in Tasks |-> 0]
    /\ fetched = [t \in Tasks |-> NoResult]
    /\ IS_REFRESHING = FALSE
    /\ lock = NoTask
    /\ tray = [exists |-> FALSE, managed |-> FALSE, title |-> <<>>, menu |-> <<>>]
    /\ initial = [menu |-> <<>>, title |-> <<>>]
    /\ started = 1
    /\ cyc = [t \in Tasks |-> 0]
    /\ returned = FALSE
    /\ invoked = [t \in Tasks |-> <<>>]
    /\ written = [active_block |-> 0, last_updated |-> 0, ccusage_available |-> 0]
    /\ snapshot = written
    /\ output = [t \in Tasks |-> "none"]
    /\ last_probe = None

\* The state a pure function leaves alone: everything but the call record.
Frame == <<pc, idx, fetched, IS_REFRESHING, SESSION_CACHE, lock, tray, initial,
           started, cyc, returned, invoked, written, snapshot, output, last_probe>>

\* response.blocks.into_iter().find(|block| block.is_active)
ApplyFind ==
    /\ call.fn = "find" /\ ~call.done
    /\ call' = [call EXCEPT !.done = TRUE, !.result = Find(call.arg)]
    /\ UNCHANGED Frame

\* format_model_name(model)
ApplyFormatModelName ==
    /\ call.fn = "format_model_name" /\ ~call.done
    /\ call' = [call EXCEPT !.done = TRUE, !.result = format_model_name(call.arg)]
    /\ UNCHANGED Frame

\* build_menu(app): Ok(menu) from the copy of the cache, or Err.
ApplyBuildMenu ==
    /\ call.fn = "build_menu" /\ ~call.done
    /\ CanLock
    /\ \E outcome \in BuildOutcomes :
          call' = [call EXCEPT !.done = TRUE,
                               !.result = IF outcome = "built"
                                          THEN <<"Ok", MenuOf(MenuSnapshot)>>
                                          ELSE <<"Err">>]
    /\ UNCHANGED Frame

PureNext ==
    \/ ApplyFind
    \/ ApplyFormatModelName
    \/ ApplyBuildMenu

PureSpec == PureInit /\ [][PureNext]_vars

\* ------------------------------------------------------------------ claims

\* C1: in every reachable state at most one execution of refresh_session_data
\* is between its IS_REFRESHING.store(true) and its IS_REFRESHING.store(false).
C1_AtMostOneInFlight == Cardinality({t \in Tasks : InFlight(t)}) <= 1

\* C2: a trigger that arrives while the guard is set starts nothing: a "refresh"
\* activation leaves its task idle (no prober run, no cache write follows from
\* it), and a timer tick that finds the guard set goes back to waiting.
C2_TriggerWhileRefreshingIsNoOp ==
    [][IS_REFRESHING =>
          /\ \A m \in ManualTasks : pc[m] = "idle" => pc'[m] = "idle"
          /\ pc[Periodic] = "check_flag" => pc'[Periodic] \in {"check_flag", "tick"}]_vars

\* C3: whenever a task is inside a refresh cycle, the cycle eventually ends
\* with that task's clearing of the guard, whatever the prober and build_menu
\* returned.
C3_CycleClearsGuard ==
    \A t \in Tasks : InFlight(t) ~> (~InFlight(t) /\ ~IS_REFRESHING)

\* C3 witness: a cycle whose prober exhausted every strategy has returned and
\* the guard is clear.
C3_Witness ==
    /\ returned
    /\ ~IS_REFRESHING
    /\ \A t \in Tasks : ~InCycle(t)
    /\ IsSome(SESSION_CACHE.last_updated)
    /\ ~SESSION_CACHE.ccusage_available

StartupCommitted ==
    pc[Startup] \in {"set_title", "rebuild_menu", "clear_flag", "build_menu",
                     "initial_title", "build_tray", "manage", "done"}

\* C5: the startup cycle is cycle number 1, and no other task is inside
\* refresh_session_data before the startup cycle has written the cache.
C5_StartupCycleFirst ==
    /\ cyc[Startup] \in {0, 1}
    /\ \A t \in Tasks \ {Startup} : InCycle(t) => StartupCommitted

\* C5 witness: a task spawned by the "refresh" item is fetching.
C5_Witness == \E m \in ManualTasks : pc[m] = "fetch"

\* The fields of a copy all come from the same replace (0: the initial record).
Whole(tags) ==
    /\ tags.active_block = tags.last_updated
    /\ tags.last_updated = tags.ccusage_available

\* C6: every copy a reader takes of the cache is of a record whose three
\* fields were written by one single replace (or are all initial).
C6_SnapshotConsistent == Whole(snapshot)

\* C6 witness: a reader copied the record written by a later cycle while
\* another cycle was in flight.
C6_Witness ==
    /\ snapshot.last_updated >= 2
    /\ \E t \in Tasks : pc[t] \in {"lock", "set_title", "rebuild_menu"}

\* C7 as claimed: last_updated is absent exactly when no refresh cycle has
\* completed (no refresh_session_data has returned yet).
C7_AbsentIffNoneCompleted ==
    (SESSION_CACHE.last_updated = None) <=> ~returned

\* Task t is in a cycle that has already assigned cache.last_updated.
WroteLastUpdated(t) ==
    pc[t] \in {"write_available", "set_title", "rebuild_menu", "clear_flag"}

\* C7 as amended: last_updated is absent exactly when no refresh cycle has yet
\* reached its assignment of last_updated in the cache update block (which
\* comes before the cycle completes); once present it is never absent again.
C7_AbsentIffNoneWritten ==
    /\ [](IsSome(SESSION_CACHE.last_updated)
            <=> (returned \/ \E t \in Tasks : WroteLastUpdated(t)))
    /\ [][IsSome(SESSION_CACHE.last_updated)
            => IsSome(SESSION_CACHE'.last_updated)]_vars

\* C7 witness: last_updated is present although no cycle has completed, and
\* the cycle that wrote it found no working strategy.
C7_Witness ==
    /\ IsSome(SESSION_CACHE.last_updated)
    /\ ~returned
    /\ pc[Startup] = "rebuild_menu"
    /\ ~fetched[Startup].ccusage_available

\* The branch of build_menu a menu shows.
IsBranch3(menu) ==
    /\ HasItem(menu, "no_session")
    /\ HasItem(menu, "error_msg")
    /\ HasItem(menu, "install_msg")
    /\ ~HasItem(menu, "loading")
    /\ ~HasItem(menu, "session_cost")

\* C8: when the prober of a cycle exhausted all strategies, the cycle ends
\* (it is about to clear the guard and return) with the cache holding no
\* interval and tool-available false, and the menu built from that cache is
\* branch 3.
C8_ExhaustedCycleEndsUnavailable ==
    \A t \in Tasks :
        (pc[t] = "clear_flag" /\ ~fetched[t].ccusage_available)
            => /\ SESSION_CACHE.active_block = None
               /\ ~SESSION_CACHE.ccusage_available
               /\ IsBranch3(MenuOf(MenuSnapshot))

\* Task t takes the step that assigns cache.active_block.
AssignsActiveBlock(t) == pc[t] = "write_block" /\ pc'[t] = "write_updated"

\* C9 as claimed: the replace of a cycle whose fetch failed leaves the
\* interval held in the cache as it was.
C9_FailedFetchRetainsInterval ==
    [][\A t \in Tasks :
          (AssignsActiveBlock(t) /\ ~fetched[t].ccusage_available)
              => SESSION_CACHE'.active_block = SESSION_CACHE.active_block]_vars

\* C9 as amended: the replace of every cycle overwrites the interval with what
\* that cycle fetched; for a cycle whose fetch failed that is none, so the
\* interval held before is discarded, not retained.
C9_FailedFetchClearsInterval ==
    [][\A t \in Tasks :
          AssignsActiveBlock(t)
              => /\ SESSION_CACHE'.active_block = fetched[t].active_block
                 /\ ~fetched[t].ccusage_available
                        => SESSION_CACHE'.active_block = None]_vars

\* C9 witness: a cycle whose fetch failed has just overwritten an interval
\* (the tray title still shows that interval's cost) with none.
C9_Witness ==
    \E t \in Tasks :
        /\ pc[t] = "write_updated"
        /\ ~fetched[t].ccusage_available
        /\ SESSION_CACHE.active_block = None
        /\ written.active_block = cyc[t]
        /\ tray.exists /\ tray.title # <<>>

\* The strategies run so far are 1, 2, ... in list order, and all but the
\* last of them failed.
InListOrder(log) ==
    \A i \in 1..Len(log) :
        /\ log[i].strategy = i
        /\ i < Len(log) => ~log[i].ok

\* C10: the prober runs the strategies in list order, each only after all the
\* ones before it failed, stops at the first success and returns its record
\* with tool-available true; and the cycle ends with the cache holding that
\* record and tool-available true.
C10_FirstSuccessWins ==
    \A t \in Tasks :
        /\ pc[t] \in {"fetch", "lock"} => InListOrder(invoked[t])
        /\ pc[t] = "fetch"
              => /\ idx[t] = Len(invoked[t]) + 1
                 /\ \A i \in 1..Len(invoked[t]) : ~invoked[t][i].ok
        /\ (pc[t] = "lock" /\ invoked[t][Len(invoked[t])].ok)
              => /\ fetched[t].active_block = invoked[t][Len(invoked[t])].found
                 /\ fetched[t].ccusage_available
        /\ (pc[t] = "lock" /\ ~invoked[t][Len(invoked[t])].ok)
              => /\ Len(invoked[t]) = NumStrategies
                 /\ ~fetched[t].ccusage_available
        /\ (pc[t] = "clear_flag" /\ fetched[t].ccusage_available)
              => /\ SESSION_CACHE.active_block = fetched[t].active_block
                 /\ SESSION_CACHE.ccusage_available

\* The arms of `match output` that do not return.
FailureKinds == {"spawn_failure", "exit_failure", "parse_failure"}

\* Task t takes a turn of the loop of fetch_session_data.
RunsStrategy(t) == pc[t] = "fetch" /\ Len(invoked'[t]) = Len(invoked[t]) + 1

\* C11: a strategy makes fetch_session_data return with tool-available true
\* only if its command exited with success and its stdout parsed; after a
\* spawn failure, a non-zero exit or an unparseable stdout alike, nothing of
\* the output is kept, the cycle stays in flight, and the prober goes on to
\* the next strategy (or, after the last one, returns (none, false)); the
\* cache, the guard and the tray are untouched.
C11_FailuresHandledAlike ==
    [][\A t \in Tasks :
          RunsStrategy(t) =>
             /\ (pc'[t] = "lock" /\ fetched'[t].ccusage_available)
                    => output'[t] = "parsed"
             /\ output'[t] \in FailureKinds =>
                    /\ IF idx[t] < NumStrategies
                       THEN /\ pc'[t] = "fetch"
                            /\ idx'[t] = idx[t] + 1
                            /\ fetched'[t] = fetched[t]
                       ELSE /\ pc'[t] = "lock"
                            /\ fetched'[t].active_block = None
                            /\ ~fetched'[t].ccusage_available
                    /\ UNCHANGED <<SESSION_CACHE, IS_REFRESHING, tray, lock>>]_vars

\* C11 witness: one task's strategy could not be spawned and another task's
\* strategy printed something that does not parse, and both are probing on.
C11_Witness ==
    \E t, u \in Tasks :
        /\ pc[t] = "fetch" /\ output[t] = "spawn_failure" /\ idx[t] = 2
        /\ pc[u] = "fetch" /\ output[u] = "parse_failure" /\ idx[u] = 3

\* Task t takes the step that assigns cache.ccusage_available and ends the
\* cache update block.
CompletesReplace(t) == pc[t] = "write_available" /\ pc'[t] = "set_title"

\* C12: when a refresh cycle has written the cache, the tool-available flag in
\* the cache is true exactly if, in the probe that returned most recently,
\* some strategy exited with success and gave a well-formed response; and a
\* well-formed response without an active record is stored as no interval
\* with tool-available true.
C12_AvailableIffLastProbeAnswered ==
    [][\A t \in Tasks :
          CompletesReplace(t) =>
             /\ SESSION_CACHE'.ccusage_available = Unwrap(last_probe)
             /\ (fetched[t].ccusage_available /\ fetched[t].active_block = None)
                  => (SESSION_CACHE'.active_block = None
                        /\ SESSION_CACHE'.ccusage_available)]_vars

\* The call under test has returned.
Returned(fn) == call.fn = fn /\ call.done

\* C13: for every array of records, find() gives the first record in array
\* order whose is_active is set, the whole record as it stands in the array,
\* and none if the array is empty or holds no active record.
C13_FirstActiveRecord ==
    Returned("find") =>
        LET blocks == call.arg
            act == {i \in 1..Len(blocks) : blocks[i].is_active}
        IN  IF act = {} THEN call.result = None
            ELSE \E i \in act :
                    /\ \A j \in act : i <= j
                    /\ call.result = Some(blocks[i])

\* C13 witness: of an inactive record followed by two different active ones,
\* the first active one was returned.
C13_Witness ==
    /\ Returned("find")
    /\ Len(call.arg) = 3
    /\ ~call.arg[1].is_active /\ call.arg[2].is_active /\ call.arg[3].is_active
    /\ call.arg[2].id # call.arg[3].id
    /\ call.result = Some(call.arg[2])

\* build_menu has returned Ok(menu).
Built == Returned("build_menu") /\ call.result[1] = "Ok"

\* The items of a menu between "Current session" and "Refresh".
Section(menu) ==
    LET from == CHOOSE i \in 1..Len(menu) : menu[i].id = <<"session_title">>
        to   == CHOOSE i \in 1..Len(menu) : menu[i].id = <<"refresh">>
    IN  SubSeq(menu, from + 1, to - 1)

Line(id, text, enabled) == [id |-> <<id>>, text |-> <<text>>, enabled |-> enabled]
SeparatorLine == [id |-> <<"separator">>, text |-> << >>, enabled |-> FALSE]

\* The Loading branch: the disabled "Loading..." line and nothing else.
IsLoading(menu) ==
    Section(menu) = << Line("loading", "Loading...", FALSE), SeparatorLine >>

C15_NoSessionBranches ==
    (Built /\ SESSION_CACHE.active_block = None /\ IsSome(SESSION_CACHE.last_updated))
        => Section(call.result[2]) =
             IF SESSION_CACHE.ccusage_available
             THEN << Line("no_session", "No active session", TRUE), SeparatorLine >>
             ELSE << Line("no_session", "No active session", TRUE),
                     Line("error_msg", "ccusage may not be installed", FALSE),
                     Line("install_msg", "Install: npm install -g ccusage", TRUE),
                     SeparatorLine >>

\* C15 witness: the menu built for a working tool that reports no active
\* session has the "No active session" line and no install hint.
C15_Witness ==
    /\ Built
    /\ SESSION_CACHE = [active_block |-> None, last_updated |-> Now,
                        ccusage_available |-> TRUE]
    /\ HasItem(call.result[2], "no_session")
    /\ ~HasItem(call.result[2], "install_msg")

\* Task t runs build_menu: in its cycle, after its manual refresh, or for the
\* first tray menu.
BuildsMenu(t) ==
    /\ pc[t] \in {"rebuild_menu", "manual_menu", "build_menu"}
    /\ pc'[t] # pc[t]

\* The menu that belongs to the content of the cache, and to nothing else.
MenuOfCache ==
    MenuOf([active_block        |-> SESSION_CACHE.active_block,
            has_attempted_fetch |-> SESSION_CACHE.last_updated # None,
            ccusage_available   |-> SESSION_CACHE.ccusage_available])

\* C16: a run of build_menu leaves SESSION_CACHE and IS_REFRESHING as they
\* are, runs no strategy and starts no refresh cycle, and the menu it hands
\* on (to the tray, or to the startup task) is determined by the content of
\* the cache alone: equal caches give equal menus.
C16_BuildMenuIsPure ==
    [][\A t \in Tasks :
          BuildsMenu(t) =>
             /\ UNCHANGED <<SESSION_CACHE, IS_REFRESHING>>
             /\ UNCHANGED <<idx, invoked, output, fetched, last_probe, started>>
             /\ \A u \in Tasks : InCycle(u)' => InCycle(u)
             /\ tray'.menu \in {tray.menu, MenuOfCache}
             /\ tray'.title = tray.title
             /\ initial'.menu \in {initial.menu, MenuOfCache}]_vars

\* C16 witness: a cycle that found an active interval has just put its menu
\* on the tray, with the guard still set.
C16_Witness ==
    \E t \in Tasks :
        /\ pc[t] = "clear_flag"
        /\ IS_REFRESHING
        /\ tray.managed
        /\ IsSome(SESSION_CACHE.active_block)
        /\ tray.menu = MenuOfCache

\* C17: format_model_name gives each identifier of its table the label of the
\* table; any other identifier gives "Opus" if it contains "opus", else
\* "Sonnet" if it contains "sonnet", else "Haiku" if it contains "haiku", else
\* the identifier itself.
C17_ModelNameTableThenKeywords ==
    Returned("format_model_name") =>
        LET name == call.arg
            Has(keyword) == \E i \in DOMAIN name : name[i] = keyword
        IN  call.result =
              CASE name = <<"claude-", "opus", "-4-20250514">>     -> <<"Opus 4">>
                [] name = <<"claude-", "sonnet", "-4-20250514">>   -> <<"Sonnet 4">>
                [] name = <<"claude-3-5-", "sonnet", "-20241022">> -> <<"Sonnet 3.5">>
                [] name = <<"claude-3-", "haiku", "-20240307">>    -> <<"Haiku">>
                [] OTHER -> CASE Has("opus")   -> <<"Opus">>
                              [] ~Has("opus") /\ Has("sonnet") -> <<"Sonnet">>
                              [] ~Has("opus") /\ ~Has("sonnet") /\ Has("haiku")
                                               -> <<"Haiku">>
                              [] OTHER         -> name

\* C17 witness: an identifier outside the table that contains "haiku",
\* "sonnet" and "opus", in this order, came out as "Opus".
C17_Witness ==
    /\ Returned("format_model_name")
    /\ call.arg = <<"haiku", "sonnet", "opus">>
    /\ call.result = <<"Opus">>

\* The position that follows p in refresh_session_data as called by task t.
Follows(t, p) ==
    CASE p = "set_flag"        -> "fetch"
      [] p = "fetch"           -> "lock"
      [] p = "lock"            -> "write_block"
      [] p = "write_block"     -> "write_updated"
      [] p = "write_updated"   -> "write_available"
      [] p = "write_available" -> "set_title"
      [] p = "set_title"       -> "rebuild_menu"
      [] p = "rebuild_menu"    -> "clear_flag"
      [] p = "clear_flag"      -> ReturnPc(t)

\* Some task moves on from one of the positions ps.
MovesFrom(ps) == \E t \in Tasks : pc[t] \in ps /\ pc'[t] # pc[t]

\* C18: a task inside refresh_session_data passes, in this order: the guard
\* set, the prober, the lock and the three assignments of the replace, the
\* title request, the menu rebuild, the guard clear; and the guard, the
\* commands, the cache, the tray title and the tray menu change only at
\* their own position. So every task past its replace has written the cache
\* and released the mutex before it asks for the title and rebuilds the menu.
C18_CycleOrder ==
    /\ [][\A t \in Tasks :
             /\ (pc[t] \in CyclePcs /\ pc'[t] # pc[t]) => pc'[t] = Follows(t, pc[t])
             /\ Len(invoked'[t]) > Len(invoked[t]) => pc[t] = "fetch"]_vars
    /\ [][/\ (~IS_REFRESHING /\ IS_REFRESHING') => MovesFrom({"set_flag"})
          /\ (IS_REFRESHING /\ ~IS_REFRESHING') => MovesFrom({"clear_flag"})
          /\ SESSION_CACHE' # SESSION_CACHE
                => MovesFrom({"write_block", "write_updated", "write_available"})
          /\ (tray.exists /\ tray'.title # tray.title) => MovesFrom({"set_title"})
          /\ (tray.exists /\ tray'.menu # tray.menu)
                => MovesFrom({"rebuild_menu", "manual_menu"})]_vars
    /\ [](\A t \in Tasks :
             pc[t] \in {"set_title", "rebuild_menu", "clear_flag"}
                => IsSome(SESSION_CACHE.last_updated) /\ lock # t)

\* C18 witness: a task spawned by the "refresh" item has been through every
\* position and is about to clear the guard, the tray showing its title.
C18_Witness ==
    \E m \in ManualTasks :
        /\ pc[m] = "clear_flag"
        /\ tray.managed
        /\ tray.title = fetched[m].title
        /\ tray.title # << >>

\* The string "$" d "." cc is the cost rounded to two decimals (the cost is
\* in thousandths).
IsCostString(title, cost) ==
    /\ Len(title) = 3
    /\ title[1] = "$"
    /\ title[3] \in 0..99
    /\ 1000 * title[2] + 10 * title[3] - cost \in -5..4

\* Task t asks the tray, which exists, for a title.
RequestsTitle(t) == pc[t] = "set_title" /\ pc'[t] # pc[t] /\ tray.exists

\* C19: the interval a cycle has fetched is what it writes to the cache, it
\* is unchanged until the cycle asks for the title, and the title asked for
\* is that interval's cost with two decimals after a "$", or the empty
\* string if the cycle wrote no interval.
C19_TitleIsCostOfOwnInterval ==
    [][\A t \in Tasks :
          /\ AssignsActiveBlock(t)
                => SESSION_CACHE'.active_block = fetched[t].active_block
          /\ pc[t] \in {"lock", "write_block", "write_updated", "write_available"}
                => fetched'[t].active_block = fetched[t].active_block
          /\ RequestsTitle(t)
                => IF fetched[t].active_block = None
                   THEN tray'.title = << >>
                   ELSE IsCostString(tray'.title,
                                     Unwrap(fetched[t].active_block).cost_usd)]_vars

\* C19 witness: a cycle that wrote the interval costing 5.678 has asked for
\* the title "$5.68" while the cache already holds another cycle's record.
C19_Witness ==
    \E t \in Tasks :
        /\ pc[t] = "rebuild_menu"
        /\ tray.exists
        /\ IsSome(fetched[t].active_block)
        /\ Unwrap(fetched[t].active_block).cost_usd = 5678
        /\ tray.title = <<"$", 5, 68>>
        /\ SESSION_CACHE.active_block # fetched[t].active_block

\* C20: a task holds the SESSION_CACHE mutex only at the three assignments of
\* the replace, so never while it runs or awaits a command; a reader's
\* acquisition is over within the step that copies, and the replace's
\* acquisition is given back by the third assignment.
C20_LockOnlyForCopyOrReplace ==
    /\ [](\A t \in Tasks :
             /\ lock = t => pc[t] \in {"write_block", "write_updated", "write_available"}
             /\ pc[t] = "fetch" => lock # t)
    /\ [][\A t \in Tasks :
             /\ (lock # t /\ lock' = t) => (pc[t] = "lock" /\ pc'[t] = "write_block")
             /\ (lock = t /\ pc[t] = "write_available" /\ pc'[t] # pc[t])
                   => lock' = NoTask
             /\ Len(invoked'[t]) > Len(invoked[t]) => (lock # t /\ lock' # t)]_vars

\* C20 witness: one task is inside its replace, holding the mutex, while
\* another is running its third strategy.
C20_Witness ==
    \E t, u \in Tasks :
        /\ lock = t
        /\ pc[t] = "write_updated"
        /\ pc[u] = "fetch" /\ idx[u] = 3

\* The menu by the order of the specification: "Loading..." whenever
\* last_updated is absent, before the interval is looked at.
PriorityMenuOf(snap) ==
    << Item("ccusage_header", <<"CCUsage">>, TRUE), Separator,
       Item("session_title", <<"Current session">>, FALSE) >>
    \o (IF ~snap.has_attempted_fetch THEN LoadingItems
        ELSE IF IsSome(snap.active_block) THEN ActiveItems(Unwrap(snap.active_block))
        ELSE NoSessionItems(snap.ccusage_available))
    \o << Item("refresh", <<"Refresh">>, TRUE),
          Item("debug", <<"Debug Info">>, TRUE), Separator,
          Item("quit", <<"Quit">>, TRUE) >>

\* C21: whenever the cache can be locked (no replace is under way), an
\* interval in it comes with last_updated present and tool-available true;
\* so for every content a reader can copy, build_menu's order (interval
\* first) gives the same menu as the order that puts "Loading..." first.
C21_IntervalImpliesUpdatedAndAvailable ==
    lock = NoTask =>
        /\ IsSome(SESSION_CACHE.active_block)
              => /\ IsSome(SESSION_CACHE.last_updated)
                 /\ SESSION_CACHE.ccusage_available
        /\ MenuOf(MenuSnapshot) = PriorityMenuOf(MenuSnapshot)

\* C21 witness: the cache holds an interval written by a cycle later than
\* the startup cycle and is free, while another cycle is probing.
C21_Witness ==
    /\ lock = NoTask
    /\ IsSome(SESSION_CACHE.active_block)
    /\ written.active_block >= 2
    /\ \E t \in Tasks : pc[t] = "fetch"

\* No task is inside refresh_session_data.
Idle == \A t \in Tasks : ~InCycle(t)

\* C22: whenever the tray exists, no refresh cycle is running and some cycle
\* has returned, the title of the tray is the cost string of the interval
\* the cache holds, or empty if it holds none.
C22_TitleMatchesCacheWhenIdle ==
    (tray.exists /\ Idle /\ returned) =>
        IF SESSION_CACHE.active_block = None
        THEN tray.title = << >>
        ELSE IsCostString(tray.title, Unwrap(SESSION_CACHE.active_block).cost_usd)

====
